---- MODULE Spec2Model ----
(***************************************************************************)
(* Amazon Price Tracker API (src/main.py): the page extractor              *)
(* scrape_amazon_price, the observation store (table price_history) and    *)
(* the request handlers, run by concurrent requests.                       *)
(*                                                                         *)
(* Texts are sequences of one-character strings.  A Python value that may  *)
(* be None is a sequence of length 0 (None) or 1 (the value).  Prices are  *)
(* fixed-point numbers with FracDigits decimals.  Time is counted in       *)
(* ticks of the store's CURRENT_TIMESTAMP; the randomized delay before a   *)
(* fetch lasts at least one tick, and a day is DayTicks ticks.             *)
(***************************************************************************)
EXTENDS Integers, Sequences, FiniteSets, TLC

VARIABLES
    rows,     \* table price_history, in insertion order (index = id)
    now,      \* the clock read by CURRENT_TIMESTAMP / datetime('now')
    pc,       \* per request: "idle", "fetch", "save", "done", "closed"
    req,      \* per request: [kind, asin, days]
    loc,      \* per request: index into urls_to_try of the next fetch
    slept,    \* per request: the delay before the next fetch has passed
    fetched,  \* per request: the locators fetched, in order
    outs,     \* per request: what the fetches of its extractor call came back with
    scrapes,  \* per request: number of scrape_amazon_price invocations
    obs,      \* per request: product_data / current_data (None before)
    dbq,      \* per request: the store query made, [time, len, res]
    ins,      \* per request: ids of the rows the request inserted
    resp,     \* per request: the HTTP response (None before)
    hist,     \* store check: the latest query, [asin, days, time, res]
    xpage,    \* extraction check: the parsed document
    xasin,    \* extraction check: the identifier
    xobs      \* extraction check: what the loop body returned for xpage

vars == <<rows, now, pc, req, loc, slept, fetched, outs, scrapes, obs, dbq,
          ins, resp, hist, xpage, xasin, xobs>>
reqVars == <<pc, req, loc, slept, fetched, outs, scrapes, obs, dbq, ins, resp>>
xVars == <<hist, xpage, xasin, xobs>>

----------------------------------------------------------------------------
(* Bounds *)
MaxRows == 3        \* rows appended in the store check
MaxTime == 2        \* clock ticks
DayTicks == 1       \* ticks per day
MaxPriceElems == 2  \* price elements of a constructed page
MaxTitleElems == 2  \* title elements of a constructed page

Reqs == {1, 2}       \* requests in flight
Asins == {"X", "Y"}
DaysArgs == {-1, 0, 1}    \* days given to the store query
HistoryDays == {0, 1}     \* days given to Get-price-history

----------------------------------------------------------------------------
(* Python values *)
None == <<>>
Some(x) == <<x>>
Val(o) == o[1]

Min(S) == CHOOSE x \in S : \A y \in S : x <= y
Max(S) == CHOOSE x \in S : \A y \in S : x >= y

RECURSIVE Pow10(_)
Pow10(n) == IF n = 0 THEN 1 ELSE 10 * Pow10(n - 1)

----------------------------------------------------------------------------
(* Numeric extraction, src/main.py 140-152 *)
FracDigits == 4
PriceScale == Pow10(FracDigits)

DigitChars == <<"0", "1", "2", "3", "4", "5", "6", "7", "8", "9">>
DigitSet == {DigitChars[i] : i \in 1..10}
DigitVal(c) == (CHOOSE i \in 1..10 : DigitChars[i] = c) - 1
GroupChars == DigitSet \cup {","}
Whitespace == {" "}

\* str.strip()
Strip(s) ==
    LET keep == {i \in 1..Len(s) : s[i] \notin Whitespace}
    IN IF keep = {} THEN <<>> ELSE SubSeq(s, Min(keep), Max(keep))

\* first position j >= i of s that is not in Cls (Len(s)+1 if none)
RunEnd(s, i, Cls) ==
    Min({j \in i..(Len(s) + 1) : j = Len(s) + 1 \/ s[j] \notin Cls})

\* re.search(r'[\$]?([0-9,]+\.?[0-9]*)', text): group(1), or None
ReSearch(text) ==
    LET starts == {i \in 1..Len(text) : text[i] \in GroupChars}
    IN IF starts = {} THEN None
       ELSE LET g  == Min(starts)
                e1 == RunEnd(text, g, GroupChars)
                e2 == IF e1 <= Len(text) /\ text[e1] = "." THEN e1 + 1 ELSE e1
                e3 == RunEnd(text, e2, DigitSet)
            IN Some(SubSeq(text, g, e3 - 1))

\* .replace(',', '')
RemoveCommas(s) == SelectSeq(s, LAMBDA c : c # ",")

RECURSIVE DigitsValue(_)
DigitsValue(s) ==
    IF s = <<>> THEN 0
    ELSE 10 * DigitsValue(SubSeq(s, 1, Len(s) - 1)) + DigitVal(s[Len(s)])

\* float(price_str) for a string of digits with at most one '.':
\* None stands for ValueError
PyFloat(s) ==
    LET dots  == {i \in 1..Len(s) : s[i] = "."}
        whole == IF dots = {} THEN s ELSE SubSeq(s, 1, Min(dots) - 1)
        frac  == IF dots = {} THEN <<>> ELSE SubSeq(s, Min(dots) + 1, Len(s))
    IN IF whole = <<>> /\ frac = <<>> THEN None
       ELSE Some(DigitsValue(whole) * PriceScale
                 + DigitsValue(frac) * Pow10(FracDigits - Len(frac)))

\* the number one matched element yields, or None (no match / ValueError)
ParsePrice(text) ==
    LET m == ReSearch(Strip(text))
    IN IF m = None THEN None ELSE PyFloat(RemoveCommas(Val(m)))

----------------------------------------------------------------------------
(* The parsed document.  A page is the sequence of its elements in document *)
(* order; an element is [cls, text], cls naming the markup it carries.      *)
price_selectors ==
    << "span.a-price-whole",
       "span.a-price.a-text-price.a-size-medium.apexPriceToPay span.a-offscreen",
       "span#priceblock_dealprice",
       "span#priceblock_ourprice",
       "span.a-price.a-text-price.a-size-medium span.a-offscreen",
       "span.a-price-range",
       ".a-price .a-offscreen",
       "span[data-a-color=price]",
       ".a-price-whole" >>

title_selectors ==
    << "#productTitle", "h1.a-size-large", "h1#title", ".product-title",
       "h1 span" >>

PriceClasses == {price_selectors[i] : i \in 1..Len(price_selectors)}
TitleClasses == {title_selectors[i] : i \in 1..Len(title_selectors)}

\* the selectors that match an element built for selector cls: a more
\* specific selector's element is matched by the more general ones too
Matching(cls) ==
    CASE cls = "span.a-price-whole" -> {cls, ".a-price-whole"}
      [] cls = "span.a-price.a-text-price.a-size-medium.apexPriceToPay span.a-offscreen" ->
            {cls, "span.a-price.a-text-price.a-size-medium span.a-offscreen",
             ".a-price .a-offscreen"}
      [] cls = "span.a-price.a-text-price.a-size-medium span.a-offscreen" ->
            {cls, ".a-price .a-offscreen"}
      [] OTHER -> {cls}

\* soup.select(selector): the matching elements in document order
Select(page, selector) ==
    SelectSeq(page, LAMBDA e : selector \in Matching(e.cls))

El(cls, text) == [cls |-> cls, text |-> text]

\* faulty variant: a ValueError ends the scan of the selector's elements
RECURSIVE ScanElementsBreak(_, _)
ScanElementsBreak(els, i) ==
    IF i > Len(els) THEN None
    ELSE LET price_match == ReSearch(Strip(els[i].text))
         IN IF price_match = None THEN ScanElementsBreak(els, i + 1)
            ELSE PyFloat(RemoveCommas(Val(price_match)))

\* inner loop over price_elements (lines 138-152), from element i on
RECURSIVE ScanElements(_, _)
ScanElements(els, i) ==
    IF i > Len(els) THEN None
    ELSE LET price_text == Strip(els[i].text)
             price_match == ReSearch(price_text)
         IN IF price_match = None THEN ScanElements(els, i + 1)
            ELSE LET price == PyFloat(RemoveCommas(Val(price_match)))
                 IN IF price # None THEN price
                    ELSE ScanElements(els, i + 1)

\* outer loop over price_selectors (lines 136-155), from selector k on
RECURSIVE ScanSelectors(_, _)
ScanSelectors(page, k) ==
    IF k > Len(price_selectors) THEN None
    ELSE LET price == ScanElements(Select(page, price_selectors[k]), 1)
         IN IF price # None THEN price ELSE ScanSelectors(page, k + 1)

ExtractPrice(page) == ScanSelectors(page, 1)

\* loop over title_selectors (lines 158-163), from selector k on
RECURSIVE ScanTitle(_, _)
ScanTitle(page, k) ==
    IF k > Len(title_selectors) THEN None
    ELSE LET found == Select(page, title_selectors[k])
         IN IF found # <<>> THEN Some(Strip(found[1].text))
            ELSE ScanTitle(page, k + 1)

ExtractTitle(page) == ScanTitle(page, 1)

\* faulty variant: the locators in the other order
urls_to_tryReversed(asin) ==
    << <<"https://www.amazon.com/gp/product/", asin>>,
       <<"https://www.amazon.com/dp/", asin>> >>

urls_to_try(asin) ==
    << <<"https://www.amazon.com/dp/", asin>>,
       <<"https://www.amazon.com/gp/product/", asin>> >>

\* title or f"Product {asin}"
TitleOr(title, asin) ==
    IF title # None /\ Val(title) # <<>> THEN Val(title)
    ELSE <<"Product ", asin>>

\* what one iteration returns from the parsed page (lines 132-172): the
\* observation, or None when the loop goes on
ScrapePage(asin, url, page) ==
    LET price == ExtractPrice(page)
        title == ExtractTitle(page)
    IN IF price # None
       THEN Some([asin |-> asin, title |-> TitleOr(title, asin),
                  price |-> Val(price), currency |-> "USD", url |-> url])
       ELSE None

DefaultPrice == 9999 * Pow10(FracDigits - 2)

\* faulty variant: nothing is returned once the locators are exhausted
MockDataMissing(asin) == None

\* faulty variant: the mock response names the locator tried last
MockDataLastUrl(asin) ==
    Some([asin |-> asin,
          title |-> <<"Mock Product ", asin, " (Scraping blocked - need proxy)">>,
          price |-> DefaultPrice, currency |-> "USD",
          url |-> <<"https://www.amazon.com/gp/product/", asin>>])

\* the mock response (lines 178-186)
MockData(asin) ==
    Some([asin |-> asin,
          title |-> <<"Mock Product ", asin, " (Scraping blocked - need proxy)">>,
          price |-> DefaultPrice, currency |-> "USD",
          url |-> <<"https://www.amazon.com/dp/", asin>>])

----------------------------------------------------------------------------
(* What a fetch can come back with *)
Failed == [exc |-> TRUE, status |-> 0, page |-> <<>>]
Response(status, page) == [exc |-> FALSE, status |-> status, page |-> page]

PageNoPrice ==
    << El("#productTitle", <<" ", "W", " ">>),
       El("span.a-price-whole", <<"x">>) >>
PageWhole ==
    << El("#productTitle", <<" ", "W", " ">>),
       El("span.a-price-whole", <<"1", ",", "2">>) >>
Outcomes ==
    {Failed, Response(503, <<>>), Response(404, <<>>)}
    \cup {Response(200, p) : p \in {PageNoPrice, PageWhole}}

\* one iteration of the loop over urls_to_try (lines 79-176) on outcome o:
\* the observation returned, or None when the loop continues
TryUrl(asin, url, o) ==
    IF o.exc THEN None                      \* except Exception: continue
    ELSE IF o.status = 503 THEN None        \* continue
    ELSE IF o.status >= 400 THEN None       \* raise_for_status()
    ELSE ScrapePage(asin, url, o.page)

----------------------------------------------------------------------------
(* Observation store, table price_history *)

\* faulty variant: INSERT OR REPLACE keyed by asin
InsertRowUpsert(table, product_data, t) ==
    LET row == [asin |-> product_data.asin, title |-> product_data.title,
                price |-> product_data.price,
                currency |-> product_data.currency,
                timestamp |-> t, url |-> product_data.url]
        old == {i \in 1..Len(table) : table[i].asin = product_data.asin}
    IN IF old = {} THEN Append(table, row)
       ELSE [table EXCEPT ![Min(old)] = row]

\* save_price_to_db at time t: INSERT one row, timestamp DEFAULT
\* CURRENT_TIMESTAMP; the row's id is its index
InsertRow(table, product_data, t) ==
    Append(table, [asin |-> product_data.asin, title |-> product_data.title,
                   price |-> product_data.price,
                   currency |-> product_data.currency,
                   timestamp |-> t, url |-> product_data.url])

\* faulty variant: the WHERE clause without the window
WhereClauseNoWindow(row, asin, days, t) == row.asin = asin

\* WHERE asin = ? AND timestamp >= datetime('now', '-{} days'.format(days))
\* at time t.  For days < 0 the modifier reads '--N days', datetime() is
\* NULL and the comparison is not true.
WhereClause(row, asin, days, t) ==
    /\ row.asin = asin
    /\ days >= 0
    /\ row.timestamp >= t - days * DayTicks

\* cursor.fetchall(): the selected rows ORDER BY timestamp DESC.  Rows of
\* equal timestamp come in an order the query does not fix.
FetchAll(table, asin, days, t) ==
    LET Q == {i \in 1..Len(table) : WhereClause(table[i], asin, days, t)}
        n == Cardinality(Q)
        orders == {f \in [1..n -> Q] :
                     /\ \A i, j \in 1..n : i # j => f[i] # f[j]
                     /\ \A i, j \in 1..n :
                          i < j => table[f[i]].timestamp >= table[f[j]].timestamp}
    IN {[k \in 1..n |-> [price |-> table[f[k]].price,
                         timestamp |-> table[f[k]].timestamp,
                         title |-> table[f[k]].title]] : f \in orders}

\* lines 216-231 on the fetched results
Aggregate(asin, results) ==
    IF results = <<>> THEN None
    ELSE Some([asin |-> asin,
               title |-> results[1].title,
               price_history |-> [k \in 1..Len(results) |->
                                   [price |-> results[k].price,
                                    timestamp |-> results[k].timestamp]],
               lowest_price |-> Min({results[k].price : k \in 1..Len(results)}),
               highest_price |-> Max({results[k].price : k \in 1..Len(results)})])

\* get_price_history_from_db(asin, days) at time t: the possible returns
get_price_history_from_db(table, asin, days, t) ==
    {Aggregate(asin, results) : results \in FetchAll(table, asin, days, t)}

----------------------------------------------------------------------------
(* Responses *)
ServerError == [status |-> 500]

\* PriceResponse(...), lines 246-253
PriceResponse(product_data, t) ==
    [status |-> 200, asin |-> product_data.asin, title |-> product_data.title,
     current_price |-> product_data.price, currency |-> product_data.currency,
     url |-> product_data.url, last_updated |-> t]

\* faulty variant: the fallback answers with the (empty) stored history
FallbackHistoryResponseStale(asin, current_data, t) ==
    [status |-> 200, asin |-> asin, title |-> current_data.title,
     price_history |-> <<>>,
     lowest_price |-> current_data.price,
     highest_price |-> current_data.price]

\* PriceHistoryResponse(...) of the fallback, lines 265-274
FallbackHistoryResponse(asin, current_data, t) ==
    [status |-> 200, asin |-> asin, title |-> current_data.title,
     price_history |-> << [price |-> current_data.price, timestamp |-> t] >>,
     lowest_price |-> current_data.price,
     highest_price |-> current_data.price]

\* PriceHistoryResponse(**history_data), line 276
StoredHistoryResponse(history_data) ==
    [status |-> 200, asin |-> history_data.asin, title |-> history_data.title,
     price_history |-> history_data.price_history,
     lowest_price |-> history_data.lowest_price,
     highest_price |-> history_data.highest_price]

----------------------------------------------------------------------------
(* Requests *)
Init ==
    /\ rows = <<>>
    /\ now = 0
    /\ pc = [r \in Reqs |-> "idle"]
    /\ req = [r \in Reqs |-> [kind |-> "none", key |-> "", days |-> 0]]
    /\ loc = [r \in Reqs |-> 1]
    /\ slept = [r \in Reqs |-> FALSE]
    /\ fetched = [r \in Reqs |-> <<>>]
    /\ outs = [r \in Reqs |-> <<>>]
    /\ scrapes = [r \in Reqs |-> 0]
    /\ obs = [r \in Reqs |-> None]
    /\ dbq = [r \in Reqs |-> None]
    /\ ins = [r \in Reqs |-> {}]
    /\ resp = [r \in Reqs |-> None]
    /\ hist = None
    /\ xpage = <<>>
    /\ xasin = ""
    /\ xobs = None

\* request slots are taken in order
Arrives(r) ==
    /\ pc[r] = "idle"
    /\ IF r = 1 THEN TRUE ELSE pc[r - 1] # "idle"

\* GET /price/{asin}: the handler up to the delay before its first fetch
GetCurrentPrice(r, asin) ==
    /\ Arrives(r)
    /\ req' = [req EXCEPT ![r] = [kind |-> "price", key |-> asin, days |-> 0]]
    /\ scrapes' = [scrapes EXCEPT ![r] = @ + 1]
    /\ pc' = [pc EXCEPT ![r] = "fetch"]
    /\ UNCHANGED <<rows, now, loc, slept, fetched, outs, obs, dbq, ins, resp, xVars>>

\* faulty variant: the handler refreshes whatever the store holds
GetHistoryAlwaysFresh(r, asin, days) ==
    /\ Arrives(r)
    /\ req' = [req EXCEPT ![r] = [kind |-> "history", key |-> asin, days |-> days]]
    /\ \E history_data \in get_price_history_from_db(rows, asin, days, now) :
         dbq' = [dbq EXCEPT ![r] =
                   Some([time |-> now, len |-> Len(rows), res |-> history_data])]
    /\ scrapes' = [scrapes EXCEPT ![r] = @ + 1]
    /\ pc' = [pc EXCEPT ![r] = "fetch"]
    /\ UNCHANGED <<rows, now, loc, slept, fetched, outs, obs, ins, resp, xVars>>

\* GET /history/{asin}?days=N: the store query, and the stored aggregate
\* returned or the fallback begun
GetHistory(r, asin, days) ==
    /\ Arrives(r)
    /\ req' = [req EXCEPT ![r] = [kind |-> "history", key |-> asin, days |-> days]]
    /\ \E history_data \in get_price_history_from_db(rows, asin, days, now) :
         /\ dbq' = [dbq EXCEPT ![r] =
                      Some([time |-> now, len |-> Len(rows), res |-> history_data])]
         /\ IF history_data = None
            THEN /\ scrapes' = [scrapes EXCEPT ![r] = @ + 1]
                 /\ pc' = [pc EXCEPT ![r] = "fetch"]
                 /\ UNCHANGED resp
            ELSE /\ resp' = [resp EXCEPT ![r] =
                               Some(StoredHistoryResponse(Val(history_data)))]
                 /\ pc' = [pc EXCEPT ![r] = "done"]
                 /\ UNCHANGED scrapes
    /\ UNCHANGED <<rows, now, loc, slept, fetched, outs, obs, ins, xVars>>

\* scrape_amazon_price: one iteration of the loop over urls_to_try once
\* its delay has passed, and the mock return once the list is exhausted
Fetch(r) ==
    /\ pc[r] = "fetch"
    /\ slept[r]
    /\ \E o \in Outcomes :
         LET asin == req[r].key
             url  == urls_to_try(asin)[loc[r]]
             got  == TryUrl(asin, url, o)
         IN /\ fetched' = [fetched EXCEPT ![r] = Append(@, url)]
            /\ outs' = [outs EXCEPT ![r] = Append(@, o)]
            /\ IF got # None
               THEN /\ obs' = [obs EXCEPT ![r] = got]
                    /\ pc' = [pc EXCEPT ![r] = "save"]
                    /\ UNCHANGED loc
               ELSE IF loc[r] < Len(urls_to_try(asin))
               THEN /\ loc' = [loc EXCEPT ![r] = @ + 1]
                    /\ UNCHANGED <<obs, pc>>
               ELSE /\ obs' = [obs EXCEPT ![r] = MockData(asin)]
                    /\ pc' = [pc EXCEPT ![r] = "save"]
                    /\ UNCHANGED loc
    /\ slept' = [slept EXCEPT ![r] = FALSE]
    /\ UNCHANGED <<rows, now, req, scrapes, dbq, ins, resp, xVars>>

\* save_price_to_db and the handler's return (lines 244-253, 263-274);
\* the extractor call's responses are gone with it.
\* Subscripting a product_data of None raises, which the framework
\* answers with a server error.
Save(r) ==
    /\ pc[r] = "save"
    /\ IF obs[r] = None
       THEN /\ resp' = [resp EXCEPT ![r] = Some(ServerError)]
            /\ UNCHANGED <<rows, ins>>
       ELSE /\ rows' = InsertRow(rows, Val(obs[r]), now)
            /\ ins' = [ins EXCEPT ![r] = @ \cup {Len(rows')}]
            /\ resp' = [resp EXCEPT ![r] =
                 Some(IF req[r].kind = "price"
                      THEN PriceResponse(Val(obs[r]), now)
                      ELSE FallbackHistoryResponse(req[r].key, Val(obs[r]), now))]
    /\ pc' = [pc EXCEPT ![r] = "done"]
    /\ outs' = [outs EXCEPT ![r] = <<>>]
    /\ UNCHANGED <<now, req, loc, slept, fetched, scrapes, obs, dbq, xVars>>

\* the framework sends the response and the request's context is dropped
Respond(r) ==
    /\ pc[r] = "done"
    /\ pc' = [pc EXCEPT ![r] = "closed"]
    /\ loc' = [loc EXCEPT ![r] = 1]
    /\ fetched' = [fetched EXCEPT ![r] = <<>>]
    /\ obs' = [obs EXCEPT ![r] = None]
    /\ dbq' = [dbq EXCEPT ![r] = None]
    /\ resp' = [resp EXCEPT ![r] = None]
    /\ UNCHANGED <<rows, now, req, slept, outs, scrapes, ins, xVars>>

\* GET /deals/{category}
FindDeals(r, category) ==
    /\ Arrives(r)
    /\ req' = [req EXCEPT ![r] = [kind |-> "deals", key |-> category, days |-> 0]]
    /\ resp' = [resp EXCEPT ![r] =
                  Some([status |-> 200, message |-> "Deals endpoint coming soon!",
                        category |-> category])]
    /\ pc' = [pc EXCEPT ![r] = "done"]
    /\ UNCHANGED <<rows, now, loc, slept, fetched, outs, scrapes, obs, dbq, ins, xVars>>

\* GET /health
HealthCheck(r) ==
    /\ Arrives(r)
    /\ req' = [req EXCEPT ![r] = [kind |-> "health", key |-> "", days |-> 0]]
    /\ resp' = [resp EXCEPT ![r] =
                  Some([status |-> 200, health |-> "healthy", timestamp |-> now])]
    /\ pc' = [pc EXCEPT ![r] = "done"]
    /\ UNCHANGED <<rows, now, loc, slept, fetched, outs, scrapes, obs, dbq, ins, xVars>>

\* the clock advances; every delay under way has lasted a tick
Tick ==
    /\ now < MaxTime
    /\ now' = now + 1
    /\ slept' = [r \in Reqs |-> slept[r] \/ pc[r] = "fetch"]
    /\ UNCHANGED <<rows, pc, req, loc, fetched, outs, scrapes, obs, dbq, ins,
                   resp, xVars>>

Next ==
    \/ \E r \in Reqs, asin \in Asins : GetCurrentPrice(r, asin)
    \/ \E r \in Reqs, asin \in Asins, days \in HistoryDays : GetHistory(r, asin, days)
    \/ \E r \in Reqs : Fetch(r)
    \/ \E r \in Reqs : Save(r)
    \/ \E r \in Reqs : FindDeals(r, "books")
    \/ \E r \in Reqs : HealthCheck(r)
    \/ \E r \in Reqs : Respond(r)
    \/ Tick

Spec == Init /\ [][Next]_vars

----------------------------------------------------------------------------
(* The store on its own: save_price_to_db and get_price_history_from_db   *)
(* as the handlers call them, in any order and at any time                 *)
StoreData ==
    {Val(MockData("X")), Val(MockData("Y")),
     Val(ScrapePage("X", urls_to_try("X")[1], PageWhole))}

save_price_to_db(product_data) ==
    /\ Len(rows) < MaxRows
    /\ rows' = InsertRow(rows, product_data, now)
    /\ UNCHANGED <<now, reqVars, xVars>>

QueryStore(asin, days) ==
    /\ \E res \in get_price_history_from_db(rows, asin, days, now) :
         hist' = Some([asin |-> asin, days |-> days, time |-> now,
                       len |-> Len(rows), res |-> res])
    /\ UNCHANGED <<rows, now, reqVars, xpage, xasin, xobs>>

NextStore ==
    \/ \E product_data \in StoreData : save_price_to_db(product_data)
    \/ \E asin \in Asins, days \in DaysArgs : QueryStore(asin, days)
    \/ Tick

SpecStore == Init /\ [][NextStore]_vars

----------------------------------------------------------------------------
(* The extraction on its own: the loop body of scrape_amazon_price on      *)
(* constructed pages                                                       *)
SeqsUpTo(S, n) == UNION {[1..k -> S] : k \in 0..n}

PriceTexts ==
    { <<"x">>, <<",">>, <<" ", "7">>, <<"$", "1", ",", "2", ".", "5">> }
TitleTexts == { <<" ">>, <<" ", "W", " ">>, <<"V">> }

PriceElems == {El(c, t) : c \in PriceClasses, t \in PriceTexts}
TitleElems == {El(c, t) : c \in TitleClasses, t \in TitleTexts}

PageSpace ==
    {p \o <<El("#productTitle", <<"V">>)>> : p \in SeqsUpTo(PriceElems, MaxPriceElems)}
    \cup {<<El(".a-price-whole", <<"7">>)>> \o t : t \in SeqsUpTo(TitleElems, MaxTitleElems)}

\* one page is parsed, for one identifier
ParsePage(asin, k, page) ==
    /\ xasin = ""
    /\ xpage' = page
    /\ xasin' = asin
    /\ xobs' = ScrapePage(asin, urls_to_try(asin)[k], page)
    /\ UNCHANGED <<rows, now, reqVars, hist>>

NextExtract ==
    /\ xasin = ""
    /\ \E asin \in Asins, k \in 1..2, page \in PageSpace : ParsePage(asin, k, page)

SpecExtract == Init /\ [][NextExtract]_vars

----------------------------------------------------------------------------
(* Properties *)

\* a fetch that did not deliver a page: exception, 503, error status
FetchFailed(o) == o.exc \/ o.status = 503 \/ o.status >= 400
\* a fetch that delivered no price
NoPrice(o) == FetchFailed(o) \/ ExtractPrice(o.page) = None
\* the row a request inserted
RowOf(r) == rows[CHOOSE i \in ins[r] : TRUE]

\* C1: whatever the two fetches come back with, a Get-current-price
\* handler that has returned has returned a 200 response whose price
\* field is present and a non-negative number.
C1_PriceAlwaysSucceeds ==
    \A r \in Reqs :
        (req[r].kind = "price" /\ pc[r] = "done") =>
            /\ resp[r] # None
            /\ Val(resp[r]).status = 200
            /\ "current_price" \in DOMAIN Val(resp[r])
            /\ Val(resp[r]).current_price \in Nat

\* one handler answered with a price found at the second locator,
\* another with the placeholder
C1_Witness ==
    \E r1, r2 \in Reqs :
        /\ req[r1].kind = "price" /\ pc[r1] = "done"
        /\ req[r2].kind = "price" /\ pc[r2] = "done"
        /\ Len(fetched[r1]) = 2 /\ Len(fetched[r2]) = 2
        /\ Val(resp[r1]).url = fetched[r1][2]
        /\ Val(resp[r2]).title[1] = "Mock Product "
        /\ Val(resp[r1]).current_price < Val(resp[r2]).current_price

\* the placeholder observation for an identifier
IsPlaceholder(d, asin) ==
    /\ d.asin = asin
    /\ d.price = 9999 * Pow10(FracDigits - 2)
    /\ d.currency = "USD"
    /\ d.title[1] = "Mock Product " /\ d.title[2] = asin
    /\ d.url = <<"https://www.amazon.com/dp/", asin>>

\* both fetches of a Get-current-price failed (exception, 503, error status)
AllFetchesFailed(r) ==
    /\ req[r].kind = "price" /\ pc[r] = "save"
    /\ Len(outs[r]) = 2
    /\ \A k \in 1..2 : FetchFailed(outs[r][k])

\* C2: when both locator fetches failed (network error, 503 or error
\* status), the extractor has returned the placeholder (price 99.99,
\* currency USD, a title made of the Mock marker and the identifier, the
\* /dp/ locator as source), and Get-current-price returns it with 200.
C2_PlaceholderPolicy ==
    /\ [](\A r \in Reqs :
            AllFetchesFailed(r) =>
                obs[r] # None /\ IsPlaceholder(Val(obs[r]), req[r].key))
    /\ [][\A r \in Reqs :
            (AllFetchesFailed(r) /\ pc'[r] # pc[r]) =>
                /\ pc'[r] = "done"
                /\ resp'[r] # None
                /\ Val(resp'[r]).status = 200
                /\ Val(resp'[r]).asin = req[r].key
                /\ Val(resp'[r]).current_price = 9999 * Pow10(FracDigits - 2)
                /\ Val(resp'[r]).currency = "USD"
                /\ Val(resp'[r]).title[1] = "Mock Product "
                /\ Val(resp'[r]).title[2] = req[r].key
                /\ Val(resp'[r]).url = <<"https://www.amazon.com/dp/", req[r].key>>]_vars

\* an extractor call met a 503 at /dp/ and an error status at
\* /gp/product/ and has returned to Get-current-price
C2_Witness ==
    \E r \in Reqs :
        /\ AllFetchesFailed(r)
        /\ outs[r][1].status = 503 /\ outs[r][2].status = 404

\* C3 (as claimed): a query for X whose window covers all N >= 1 rows of X
\* returns exactly those rows, most recently appended first, with
\* lowest/highest the minimum/maximum of their prices.
C3_RoundTripNewestFirst ==
    hist # None =>
        LET q == Val(hist)
            mine == {i \in 1..q.len : rows[i].asin = q.asin}
            N == Cardinality(mine)
            covered == /\ q.days >= 0
                       /\ \A i \in mine :
                            q.time - rows[i].timestamp <= q.days * DayTicks
            nth(k) == CHOOSE i \in mine : Cardinality({j \in mine : j > i}) = k - 1
        IN (N >= 1 /\ covered) =>
              /\ q.res # None
              /\ Len(Val(q.res).price_history) = N
              /\ \A k \in 1..N :
                    Val(q.res).price_history[k] =
                        [price |-> rows[nth(k)].price,
                         timestamp |-> rows[nth(k)].timestamp]
              /\ Val(q.res).lowest_price = Min({rows[i].price : i \in mine})
              /\ Val(q.res).highest_price = Max({rows[i].price : i \in mine})

\* C4: a query returns exactly the rows of the identifier whose timestamp
\* lies within the trailing window (as a multiset of price/timestamp
\* entries), lowest/highest are taken over those rows only, and the
\* result is None when no row qualifies.
C4_WindowFiltering ==
    hist # None =>
        LET q == Val(hist)
            sel == {i \in 1..q.len :
                      /\ rows[i].asin = q.asin
                      /\ rows[i].timestamp <= q.time
                      /\ q.time - rows[i].timestamp <= q.days * DayTicks}
        IN IF sel = {} THEN q.res = None
           ELSE /\ q.res # None
                /\ LET h == Val(q.res).price_history
                   IN /\ Len(h) = Cardinality(sel)
                      /\ \E f \in [1..Len(h) -> sel] :
                           /\ \A a, b \in 1..Len(h) : a # b => f[a] # f[b]
                           /\ \A k \in 1..Len(h) :
                                h[k] = [price |-> rows[f[k]].price,
                                        timestamp |-> rows[f[k]].timestamp]
                /\ Val(q.res).lowest_price = Min({rows[i].price : i \in sel})
                /\ Val(q.res).highest_price = Max({rows[i].price : i \in sel})

\* a query kept a row of the identifier, left out an older row of the
\* same identifier with a lower price, and left out another identifier's
C4_Witness ==
    /\ hist # None
    /\ Val(hist).res # None
    /\ Len(Val(Val(hist).res).price_history) = 1
    /\ \E i, j, k \in 1..Val(hist).len :
         /\ rows[i].asin = Val(hist).asin /\ rows[j].asin = Val(hist).asin
         /\ rows[k].asin # Val(hist).asin
         /\ rows[i].timestamp < rows[j].timestamp
         /\ rows[i].price < rows[j].price
         /\ Val(Val(hist).res).lowest_price = rows[j].price

\* C5: a Get-history call for an identifier without rows calls the
\* extractor once, appends the one row the extractor returned, and
\* answers with a one-entry history of that row's price, lowest =
\* highest = that price.
C5_HistoryFallback ==
    \A r \in Reqs :
        (/\ req[r].kind = "history" /\ pc[r] = "done"
         /\ dbq[r] # None
         /\ \A i \in 1..Val(dbq[r]).len : rows[i].asin # req[r].key) =>
            /\ scrapes[r] = 1
            /\ Cardinality(ins[r]) = 1
            /\ obs[r] # None
            /\ RowOf(r).asin = Val(obs[r]).asin
            /\ RowOf(r).title = Val(obs[r]).title
            /\ RowOf(r).price = Val(obs[r]).price
            /\ RowOf(r).currency = Val(obs[r]).currency
            /\ RowOf(r).url = Val(obs[r]).url
            /\ Val(resp[r]).status = 200
            /\ Len(Val(resp[r]).price_history) = 1
            /\ Val(resp[r]).price_history[1].price = RowOf(r).price
            /\ Val(resp[r]).lowest_price = RowOf(r).price
            /\ Val(resp[r]).highest_price = RowOf(r).price

\* a fallback has answered with a price found on a page while the store
\* held another identifier's row
C5_Witness ==
    \E r \in Reqs :
        /\ req[r].kind = "history" /\ pc[r] = "done"
        /\ dbq[r] # None /\ Val(dbq[r]).len = 1
        /\ rows[1].asin # req[r].key
        /\ ins[r] = {2}
        /\ Val(resp[r]).lowest_price # 9999 * Pow10(FracDigits - 2)

\* a Get-history whose store query was non-empty has returned, with the
\* stored aggregate, and has fetched and inserted nothing
C6_Inv ==
    \A r \in Reqs :
        (/\ req[r].kind = "history" /\ pc[r] \in {"fetch", "save", "done"}
         /\ dbq[r] # None /\ Val(dbq[r]).res # None) =>
            /\ pc[r] = "done"
            /\ scrapes[r] = 0 /\ fetched[r] = <<>> /\ ins[r] = {}
            /\ obs[r] = None
            /\ resp[r] # None
            /\ Val(resp[r]).status = 200
            /\ \A f \in DOMAIN Val(Val(dbq[r]).res) :
                 Val(resp[r])[f] = Val(Val(dbq[r]).res)[f]
            /\ DOMAIN Val(resp[r]) = DOMAIN Val(Val(dbq[r]).res) \cup {"status"}

\* the step that makes a non-empty store query changes no row and
\* starts no fetch
C6_Act ==
    \A r \in Reqs :
        (/\ dbq[r] = None /\ dbq'[r] # None
         /\ Val(dbq'[r]).res # None) =>
            rows' = rows /\ scrapes' = scrapes /\ fetched' = fetched /\ ins' = ins

\* C6: when the store query is non-empty the Get-history handler returns
\* at once with the stored aggregate, has called no extractor, issued no
\* fetch and inserted no row, and its step leaves the rows as they were.
C6_StoredAggregateAsIs == []C6_Inv /\ [][C6_Act]_vars

\* a Get-history has returned the row an earlier Get-current-price for
\* the identifier had inserted
C6_Witness ==
    \E r, w \in Reqs :
        /\ req[w].kind = "price" /\ pc[w] = "closed"
        /\ req[r].kind = "history" /\ pc[r] = "done"
        /\ req[r].key = req[w].key
        /\ dbq[r] # None /\ Val(dbq[r]).res # None
        /\ Val(resp[r]).price_history =
             << [price |-> rows[1].price, timestamp |-> rows[1].timestamp] >>
        /\ Len(rows) = 1

\* C7: the extracted price is the number of the first parseable element
\* of the earliest price selector that has one; elements that fail to
\* parse are passed over; without any parseable element there is no price.
C7_SelectorPrecedence ==
    LET els(k) == Select(xpage, price_selectors[k])
        ok(k) == {i \in 1..Len(els(k)) : ParsePrice(els(k)[i].text) # None}
        hits == {k \in 1..Len(price_selectors) : ok(k) # {}}
    IN xasin # "" =>
         IF hits = {} THEN xobs = None
         ELSE /\ xobs # None
              /\ Val(xobs).price =
                   Val(ParsePrice(els(Min(hits))[Min(ok(Min(hits)))].text))

\* two selectors each matched one parseable element, with different
\* numbers, and the price is the earlier selector's
C7_Witness ==
    /\ xobs # None
    /\ \E k, l \in 1..Len(price_selectors) :
         LET a == Select(xpage, price_selectors[k])
             b == Select(xpage, price_selectors[l])
         IN /\ k < l
            /\ Len(a) = 1 /\ Len(b) = 1
            /\ ParsePrice(a[1].text) # None
            /\ ParsePrice(b[1].text) # None
            /\ ParsePrice(a[1].text) # ParsePrice(b[1].text)
            /\ Val(xobs).price = Val(ParsePrice(a[1].text))

\* C8 (as claimed): the returned title is the stripped text of the
\* earliest title selector whose matched element has non-empty text, and
\* 'Product <identifier>' only when no title selector has such an element.
C8_TitleFirstNonEmpty ==
    xobs # None =>
        LET text(k) == Strip(Select(xpage, title_selectors[k])[1].text)
            nonempty == {k \in 1..Len(title_selectors) :
                           /\ Select(xpage, title_selectors[k]) # <<>>
                           /\ text(k) # <<>>}
        IN Val(xobs).title =
             IF nonempty = {} THEN <<"Product ", xasin>>
             ELSE text(Min(nonempty))

\* the fetches of a running extractor call: /dp/ first, /gp/product/
\* second and only after a first without price; a price found comes with
\* the locator whose page held it, the placeholder only after two fetches
C9_Inv ==
    \A r \in Reqs :
        pc[r] \in {"fetch", "save"} =>
            LET asin == req[r].key
                n == Len(fetched[r])
            IN /\ scrapes[r] = 1
               /\ n <= 2 /\ Len(outs[r]) = n
               /\ n >= 1 => fetched[r][1] = <<"https://www.amazon.com/dp/", asin>>
               /\ n = 2 => fetched[r][2] = <<"https://www.amazon.com/gp/product/", asin>>
               /\ n = 2 => NoPrice(outs[r][1])
               /\ n = 1 => (NoPrice(outs[r][1]) <=> pc[r] = "fetch")
               /\ pc[r] = "fetch" => n < 2 /\ loc[r] = n + 1
               /\ pc[r] = "save" =>
                    /\ n >= 1
                    /\ obs[r] # None
                    /\ IF NoPrice(outs[r][n]) THEN n = 2
                       ELSE /\ Val(obs[r]).url = fetched[r][n]
                            /\ Val(obs[r]).price =
                                 Val(ExtractPrice(outs[r][n].page))

\* an iteration issues one fetch, and returns or moves on to the next of
\* the two locators
C9_Act ==
    \A r \in Reqs :
        fetched'[r] # fetched[r] /\ pc[r] = "fetch" =>
            /\ Len(fetched'[r]) = Len(fetched[r]) + 1
            /\ \/ pc'[r] = "save"
               \/ pc'[r] = "fetch" /\ loc'[r] = loc[r] + 1 /\ loc'[r] <= 2

\* C9: one extractor call fetches /dp/ and then /gp/product/, each at
\* most once; the second is fetched exactly when the first delivered no
\* price; every iteration returns or moves to the next locator, so the
\* call ends after at most two fetches; and a price found comes with the
\* locator whose page held it.
C9_LocatorFallback == []C9_Inv /\ [][C9_Act]_vars

\* a call found its price on the second locator's page after the first
\* locator's page held none
C9_Witness ==
    \E r \in Reqs :
        /\ pc[r] = "save"
        /\ Len(outs[r]) = 2
        /\ ~FetchFailed(outs[r][1]) /\ NoPrice(outs[r][1])
        /\ ~NoPrice(outs[r][2])
        /\ Val(obs[r]).url = <<"https://www.amazon.com/gp/product/", req[r].key>>

\* what the requests inserted, and what the store holds
C10_Inv ==
    /\ \A r \in Reqs :
         (req[r].kind = "price" /\ pc[r] \in {"done", "closed"}) =>
             Cardinality(ins[r]) = 1
    /\ \A r \in Reqs :
         (req[r].kind = "price" /\ pc[r] = "done") =>
             /\ RowOf(r).asin = Val(resp[r]).asin
             /\ RowOf(r).title = Val(resp[r]).title
             /\ RowOf(r).price = Val(resp[r]).current_price
             /\ RowOf(r).currency = Val(resp[r]).currency
             /\ RowOf(r).url = Val(resp[r]).url
    /\ \A r \in Reqs : req[r].kind \in {"deals", "health"} => ins[r] = {}
    /\ \A r1, r2 \in Reqs : r1 # r2 => ins[r1] \cap ins[r2] = {}
    /\ UNION {ins[r] : r \in Reqs} = 1..Len(rows)

\* a step appends at most one row and changes no earlier row
C10_Act ==
    /\ Len(rows') \in {Len(rows), Len(rows) + 1}
    /\ SubSeq(rows', 1, Len(rows)) = rows

\* C10: rows are only ever appended, one at a time; a Get-current-price
\* call that has returned has inserted exactly one row, the observation it
\* returned; Find-deals and Health insert none; and the rows of the store
\* are exactly the rows the requests inserted, each by one request.
C10_AppendOnly == []C10_Inv /\ [][C10_Act]_vars

\* two Get-current-price calls for one identifier, in flight together,
\* have both returned and left two rows of the same timestamp
C10_Witness ==
    /\ \A r \in Reqs : req[r].kind = "price" /\ pc[r] = "done"
    /\ req[1].key = req[2].key
    /\ Len(rows) = 2
    /\ rows[1].timestamp = rows[2].timestamp
    /\ rows[1].asin = rows[2].asin

====
